---------------------------- MODULE Spec2Model ----------------------------
(***************************************************************************)
(* A model of rurel's two trainers:                                        *)
(*   - DQNAgentTrainer (src/src/dqn.rs): online and target network, the    *)
(*     optimizer, train_dqn's inner gradient loop and train's batch        *)
(*     collection loop;                                                    *)
(*   - AgentTrainer (src/src/lib.rs): the tabular value table and its      *)
(*     train loop;                                                         *)
(* together with the termination strategies FixedIterations and SinkStates *)
(* and the RandomExploration strategy.                                     *)
(*                                                                         *)
(* f32 values are modelled as integers extended with NaN, +Inf and -Inf;   *)
(* the arithmetic below follows IEEE 754 on these.  Array indices are the  *)
(* source's 0-based indices; a TLA+ sequence holds index k at position k+1.*)
(***************************************************************************)
EXTENDS Integers, Sequences, FiniteSets, TLC

(***************************************************************************)
(* Sizes.                                                                  *)
(***************************************************************************)
\* dqn.rs:13 has BATCH = 64; the model collects batches of this many rows.
BATCH == 3
\* The const generics of DQNAgentTrainer<S, STATE_SIZE, ACTION_SIZE, INNER_SIZE>.
STATE_SIZE == 2
ACTION_SIZE == 2
INNER_SIZE == 1
\* dqn.rs:172, `for _step in 0..20`.
INNER_STEPS == 20
\* FixedIterations counts in a u32; the model's counter has this maximum.
U32_MAX == 6
\* One train call is followed through this many train_dqn calls.
MaxTrainDqnCalls == 3
\* One tabular train call is followed through this many table updates.
MaxUpdates == 7

(***************************************************************************)
(* f32: integers, NaN, +Inf, -Inf.                                         *)
(***************************************************************************)
PosInf == 1000
NegInf == -1000
NaN == 2000

IsNaN(x) == x = NaN
IsInf(x) == x = PosInf \/ x = NegInf
IsFinite(x) == ~IsNaN(x) /\ ~IsInf(x)

FNeg(x) ==
    IF IsNaN(x) THEN NaN
    ELSE IF x = PosInf THEN NegInf
    ELSE IF x = NegInf THEN PosInf
    ELSE -x

FAdd(x, y) ==
    IF IsNaN(x) \/ IsNaN(y) THEN NaN
    ELSE IF IsInf(x) /\ IsInf(y) THEN (IF x = y THEN x ELSE NaN)
    ELSE IF IsInf(x) THEN x
    ELSE IF IsInf(y) THEN y
    ELSE x + y

FSub(x, y) == FAdd(x, FNeg(y))

FMul(x, y) ==
    IF IsNaN(x) \/ IsNaN(y) THEN NaN
    ELSE IF IsInf(x) \/ IsInf(y)
         THEN (IF x = 0 \/ y = 0 THEN NaN
               ELSE IF (x > 0) = (y > 0) THEN PosInf ELSE NegInf)
    ELSE x * y

\* `a > b` on f32: false when either side is NaN.
FGt(x, y) == ~IsNaN(x) /\ ~IsNaN(y) /\ x > y

\* f32::max: the larger operand, and the other operand when one is NaN.
FMax(x, y) ==
    IF IsNaN(x) THEN y
    ELSE IF IsNaN(y) THEN x
    ELSE IF x > y THEN x ELSE y

FAbs(x) == IF IsNaN(x) THEN NaN ELSE IF IsInf(x) THEN PosInf ELSE IF x < 0 THEN -x ELSE x

Sgn(x) == IF x > 0 THEN 1 ELSE IF x < 0 THEN -1 ELSE 0

RECURSIVE FSum(_)
FSum(v) == IF Len(v) = 0 THEN 0 ELSE FAdd(Head(v), FSum(Tail(v)))

Zeros(n) == [k \in 1..n |-> 0]


(***************************************************************************)
(* Tensor operations of the dfdx library, as dqn.rs uses them.             *)
(***************************************************************************)
Dot(w, x) == FSum([k \in 1..Len(w) |-> FMul(w[k], x[k])])

\* Linear<I, O>: w is O rows of I weights, b is O biases.
LinearForward(l, x) == [o \in 1..Len(l.b) |-> FAdd(Dot(l.w[o], x), l.b[o])]

\* ReLU is max(x, 0) elementwise.
ReLU(v) == [k \in 1..Len(v) |-> FMax(v[k], 0)]

\* QNetwork: ((Linear, ReLU), (Linear, ReLU), Linear).
Forward(net, x) ==
    LinearForward(net.l3, ReLU(LinearForward(net.l2, ReLU(LinearForward(net.l1, x)))))

\* normalize(eps) along the one axis of a vector: (x - mean) / sqrt(var + eps).
\* The model keeps the sign of the deviation from the mean, which is the value
\* rounded to the nearest integer for a vector of two distinct integers.
Normalize(v) == [k \in 1..Len(v) |-> Sgn(Len(v) * v[k] - FSum(v))]

\* max() over the last axis.
RECURSIVE MaxReduce(_)
MaxReduce(v) == IF Len(v) = 0 THEN NegInf ELSE FMax(Head(v), MaxReduce(Tail(v)))

\* nans_to(c): every NaN element replaced by c.
NansToSkipped(v, c) == v

NansTo(v, c) == [k \in 1..Len(v) |-> IF IsNaN(v[k]) THEN c ELSE v[k]]

\* huber_loss(pred, targ, 1.0), times 2 * BATCH so that it stays an integer:
\* e^2 for |e| <= 1 and 2|e| - 1 beyond, summed over the rows.
HuberTerm(e) ==
    IF IsNaN(e) THEN NaN
    ELSE IF IsInf(e) THEN PosInf
    ELSE IF FAbs(e) <= 1 THEN e * e ELSE 2 * FAbs(e) - 1

huber_loss(pred, targ) ==
    FSum([r \in 1..Len(pred) |-> HuberTerm(FSub(pred[r], targ[r]))])

\* The derivative of the loss by each row's selected Q value (times BATCH):
\* the error clipped to [-1, 1].
HuberGrad(e) ==
    IF IsNaN(e) THEN NaN
    ELSE IF e > 1 THEN 1 ELSE IF e < -1 THEN -1 ELSE e

(***************************************************************************)
(* Network parameter sets.  build_module initializes to finite values; an  *)
(* imported model and the result of an optimizer update are any parameter  *)
(* set, including one holding NaN or Inf.                                  *)
(***************************************************************************)
Linear(w, b) == [w |-> w, b |-> b]

NetA == [l1 |-> Linear(<< <<1, 0>> >>, <<0>>),
         l2 |-> Linear(<< <<1>> >>, <<1>>),
         l3 |-> Linear(<< <<1>>, <<-1>> >>, <<0, 0>>)]

NetB == [l1 |-> Linear(<< <<0, 1>> >>, <<1>>),
         l2 |-> Linear(<< <<1>> >>, <<0>>),
         l3 |-> Linear(<< <<-1>>, <<2>> >>, <<1, 0>>)]

NetPoisoned == [l1 |-> Linear(<< <<1, 0>> >>, <<0>>),
                l2 |-> Linear(<< <<1>> >>, <<1>>),
                l3 |-> Linear(<< <<1>>, <<-1>> >>, <<NaN, PosInf>>)]

InitModels == {NetA, NetB}
Models == {NetA, NetB, NetPoisoned}

Gammas == {1, 2}
LearningRates == {1}

(***************************************************************************)
(* The domain: a State with reward() and actions(), its conversions to     *)
(* float arrays, and an Agent.  Positions 0..SinkPos on a line; SinkPos has *)
(* no actions.                                                             *)
(***************************************************************************)
SinkPos == 2
DomainStates == 0..SinkPos

\* State::reward
Reward(s) == s - 1

\* State::actions
StateActions(s) == IF s = SinkPos THEN <<>> ELSE <<"left", "right">>

\* Into<[f32; STATE_SIZE]> for the state
StateVec(s) == <<s, SinkPos - s>>

\* Into<[f32; ACTION_SIZE]> for the action
ActionVec(a) == IF a = "left" THEN <<1, 0>> ELSE <<0, 1>>

\* From<[f32; ACTION_SIZE]> for the action: the action of the maximum element;
\* max_by keeps the last of several equal maxima.
ActionFrom(v) ==
    LET max_index == CHOOSE k \in 0..(Len(v) - 1) :
                         /\ \A j \in 0..(Len(v) - 1) : v[j + 1] <= v[k + 1]
                         /\ \A j \in (k + 1)..(Len(v) - 1) : v[j + 1] < v[k + 1]
    IN  IF max_index = 0 THEN "left" ELSE "right"

\* Agent::take_action
TakeAction(s, a) == IF a = "right" THEN s + 1 ELSE IF s = 0 THEN 0 ELSE s - 1

(***************************************************************************)
(* State.                                                                  *)
(***************************************************************************)
VARIABLES
    \* DQNAgentTrainer's fields
    gamma, q_network, target_q_net, sgd,
    \* train_dqn's locals: the gradient buffer, the loop variable, and the
    \* tensors of the call (frame)
    grads, step, frame,
    \* DQNAgentTrainer::train's locals: the batch being filled and its index
    states, actions, next_states, rewards, dones, i, s_t_next,
    \* the agent's current state and the termination strategy
    agent, term,
    \* AgentTrainer's table and the learning strategy of its train call
    q, learn,
    \* the files of the working directory, by path
    files,
    \* control: the position in the running call, who called train_dqn, the
    \* message of the panic that ended the program
    pc, caller, panic,
    \* history: the last call made to the trainer and what it returned, the
    \* number of train_dqn calls and of table updates of the running train call,
    \* and the answers should_stop gave in it
    last_call, ret, n_train_dqn, n_updates, stops,
    \* whether anything was learned: a train_dqn call or an import was made
    learned

dqn_vars == <<gamma, q_network, target_q_net, sgd, grads, step, frame>>
batch_vars == <<states, actions, next_states, rewards, dones, i, s_t_next>>
env_vars == <<agent, term>>
tab_vars == <<q, learn, files>>
ctl_vars == <<pc, caller, panic>>
hist_vars == <<last_call, ret, n_train_dqn, n_updates, stops, learned>>
vars == <<dqn_vars, batch_vars, env_vars, tab_vars, ctl_vars, hist_vars>>

\* Option<T>
None == [some |-> FALSE]
Some(x) == [some |-> TRUE, val |-> x]

(***************************************************************************)
(* DQNAgentTrainer: construction and queries.                              *)
(***************************************************************************)
NoFrame == [dones |-> <<>>, rewards |-> <<>>, states |-> <<>>, actions |-> <<>>,
            next_states |-> <<>>, target_q |-> <<>>, q_at_entry |-> <<>>]
NoBatch == <<>>
NoCall == [op |-> "new", arg |-> <<>>]
NoStops == [collect |-> FALSE, check |-> FALSE]

\* DQNAgentTrainer::new.  q_net is what build_module initialized.
New(g, lr, q_net) ==
    /\ gamma = g
    /\ q_network = q_net
    /\ target_q_net = q_net
    /\ sgd = [lr |-> lr, velocity |-> 0]

\* dqn.rs:104-108: what expected_value computes from a network.
QueryNetwork(net, s) == NansTo(Forward(net, Normalize(StateVec(s))), 0)

\* DQNAgentTrainer::expected_value computes its answer anew in every call.
expected_value_memoized(s) ==
    IF last_call.op = "expected_value" THEN ret ELSE QueryNetwork(target_q_net, s)

\* DQNAgentTrainer::expected_value
expected_value(s) == QueryNetwork(target_q_net, s)

\* DQNAgentTrainer::learned_values
learned_values == q_network

\* DQNAgentTrainer::best_action
best_action(s) == Some(ActionFrom(expected_value(s)))

\* DQNAgentTrainer::export_learned_values
export_learned_values == learned_values

\* DQNAgentTrainer::import_model: both clone_from calls.
import_model_online_only(model) ==
    /\ q_network' = model
    /\ target_q_net' = target_q_net

import_model_target_first(model) ==
    /\ target_q_net' = q_network
    /\ q_network' = model

import_model(model) ==
    /\ q_network' = model
    /\ target_q_net' = q_network'

Idle == pc = "idle"

ExpectedValue(s) ==
    /\ Idle
    /\ last_call' = [op |-> "expected_value", arg |-> s]
    /\ ret' = expected_value(s)
    /\ UNCHANGED <<dqn_vars, batch_vars, env_vars, tab_vars, ctl_vars>>
    /\ UNCHANGED <<n_train_dqn, n_updates, stops, learned>>

BestAction(s) ==
    /\ Idle
    /\ last_call' = [op |-> "best_action", arg |-> s]
    /\ ret' = best_action(s)
    /\ UNCHANGED <<dqn_vars, batch_vars, env_vars, tab_vars, ctl_vars>>
    /\ UNCHANGED <<n_train_dqn, n_updates, stops, learned>>

ExportLearnedValues ==
    /\ Idle
    /\ last_call' = [op |-> "export_learned_values", arg |-> <<>>]
    /\ ret' = export_learned_values
    /\ UNCHANGED <<dqn_vars, batch_vars, env_vars, tab_vars, ctl_vars>>
    /\ UNCHANGED <<n_train_dqn, n_updates, stops, learned>>

ImportModel(model) ==
    /\ Idle
    /\ import_model(model)
    /\ last_call' = [op |-> "import_model", arg |-> model]
    /\ ret' = <<>>
    /\ UNCHANGED <<gamma, sgd, grads, step, frame>>
    /\ UNCHANGED <<batch_vars, env_vars, tab_vars, ctl_vars>>
    /\ UNCHANGED <<n_train_dqn, n_updates, stops>>
    /\ learned' = TRUE

\* import_model(export_learned_values())
ImportExported ==
    /\ Idle
    /\ import_model(export_learned_values)
    /\ last_call' = [op |-> "import_exported", arg |-> export_learned_values]
    /\ ret' = <<>>
    /\ UNCHANGED <<gamma, sgd, grads, step, frame>>
    /\ UNCHANGED <<batch_vars, env_vars, tab_vars, ctl_vars>>
    /\ UNCHANGED <<n_train_dqn, n_updates, stops>>
    /\ learned' = TRUE

(***************************************************************************)
(* A panic unwinds the running calls: their locals are dropped and the     *)
(* program ends with the panic's message.                                  *)
(***************************************************************************)
Panic(msg) ==
    /\ pc' = "panicked"
    /\ panic' = msg

DropTrainDqnLocals ==
    /\ grads' = <<>> /\ step' = 0 /\ frame' = NoFrame

DropTrainLocals ==
    /\ states' = NoBatch /\ actions' = NoBatch /\ next_states' = NoBatch
    /\ rewards' = NoBatch /\ dones' = NoBatch /\ i' = 0 /\ s_t_next' = 0

(***************************************************************************)
(* DQNAgentTrainer::train_dqn.                                             *)
(***************************************************************************)
\* dqn.rs:155-165: the index of the action vector's maximum.
RECURSIVE max_idx_from(_, _, _, _)
max_idx_from(a, k, max_idx, max_val) ==
    IF k >= Len(a) THEN max_idx
    ELSE IF FGt(a[k + 1], max_val)
         THEN max_idx_from(a, k + 1, k, a[k + 1])
         ELSE max_idx_from(a, k + 1, max_idx, max_val)

DecodeAction(a) == max_idx_from(a, 0, 0, 0)

\* The mean of column k over the rows of a matrix, times the number of rows.
ColumnSum(m, k) == FSum([r \in 1..Len(m) |-> m[r][k]])

\* normalize over the batch axis of a Rank2<BATCH, STATE_SIZE> tensor: every
\* column by the mean of that column.
NormalizeAxis0(m) ==
    [r \in 1..Len(m) |->
        [k \in 1..Len(m[r]) |-> Sgn(Len(m) * m[r][k] - ColumnSum(m, k))]]

\* dqn.rs:152, 169: normalize::<Axis<1>> of a Rank2<BATCH, STATE_SIZE> tensor
\* reduces over axis 1, the STATE_SIZE elements of each row.
NormalizeAxis1(m) == [r \in 1..Len(m) |-> Normalize(m[r])]

\* dqn.rs:143-169: the resync, the gradient buffer, the tensors.
TrainDqnEntry(b) ==
    /\ target_q_net' = q_network
    /\ grads' = Zeros(BATCH)
    /\ frame' = [dones |-> [r \in 1..BATCH |-> IF b.dones[r] THEN 1 ELSE 0],
                 rewards |-> b.rewards,
                 states |-> NormalizeAxis1(b.states),
                 actions |-> [r \in 1..BATCH |-> DecodeAction(b.actions[r])],
                 next_states |-> NormalizeAxis1(b.next_states),
                 target_q |-> <<>>,
                 q_at_entry |-> q_network]
    /\ step' = 0
    /\ UNCHANGED <<gamma, q_network, sgd>>

\* dqn.rs:180: the network that values the next states.
NextStateNetworkOnline == q_network

NextStateNetwork == target_q_net

\* dqn.rs:173-175
ActionQs == [r \in 1..BATCH |-> Forward(q_network, frame.states[r])[frame.actions[r] + 1]]

\* dqn.rs:180-181
MaxNextQ == [r \in 1..BATCH |-> MaxReduce(Forward(NextStateNetwork, frame.next_states[r]))]

\* dqn.rs:182
TargetQ ==
    [r \in 1..BATCH |->
        FAdd(FMul(FMul(MaxNextQ[r], FAdd(FNeg(frame.dones[r]), 1)), gamma),
             frame.rewards[r])]

\* dqn.rs:184-186: loss.backward() adds the gradient of the loss to the
\* buffer that trace() was handed.
Backward ==
    [r \in 1..BATCH |-> FAdd(grads[r], HuberGrad(FSub(ActionQs[r], TargetQ[r])))]

\* dqn.rs:189-190: what the optimizer leaves in the online network.  The
\* update is the library's; it may leave any parameter set.
UpdateBoth(m) ==
    /\ q_network' = m
    /\ target_q_net' = m

Update(m) ==
    /\ q_network' = m
    /\ target_q_net' = target_q_net

\* The optimizer's momentum accumulators: 0 in a fresh optimizer, 1 once an
\* update has run.
Velocity(g) == 1

\* dqn.rs:192: zero_grads on the buffer that backward() returned.
ZeroGradsSkipped == Backward

ZeroGrads == Zeros(BATCH)

\* dqn.rs:173-192: one iteration of the inner loop.  The frame keeps the
\* target of the iteration.
InnerStep ==
    /\ pc = "loop"
    /\ step < INNER_STEPS
    /\ frame' = [frame EXCEPT !.target_q = TargetQ]
    /\ \E m \in Models : Update(m)
    /\ sgd' = [sgd EXCEPT !.velocity = Velocity(Backward)]
    /\ grads' = ZeroGrads
    /\ step' = step + 1
    /\ UNCHANGED <<gamma, pc>>
    /\ UNCHANGED <<batch_vars, env_vars, tab_vars, caller, panic, hist_vars>>

\* dqn.rs:191: the update reports a parameter without gradient; expect panics.
\* The unwinding runs no code of train_dqn: line 194 is not reached.
InnerStepPanicsResynced ==
    /\ pc = "loop"
    /\ step < INNER_STEPS
    /\ \E m \in Models : UpdateBoth(m)
    /\ sgd' = [sgd EXCEPT !.velocity = Velocity(Backward)]
    /\ Panic("Unused params")
    /\ DropTrainDqnLocals
    /\ DropTrainLocals
    /\ UNCHANGED <<gamma>>
    /\ UNCHANGED <<env_vars, tab_vars, caller, hist_vars>>

InnerStepPanics ==
    /\ pc = "loop"
    /\ step < INNER_STEPS
    /\ \E m \in Models : Update(m)
    /\ sgd' = [sgd EXCEPT !.velocity = Velocity(Backward)]
    /\ Panic("Unused params")
    /\ DropTrainDqnLocals
    /\ DropTrainLocals
    /\ UNCHANGED <<gamma>>
    /\ UNCHANGED <<env_vars, tab_vars, caller, hist_vars>>

\* dqn.rs:194: the final resync.
FinalSyncSkipped == target_q_net' = target_q_net

FinalSync == target_q_net' = q_network

\* dqn.rs:172, 194-195: the loop is over; resync and return.  The loop has no
\* break: it ends with its range.
TrainDqnReturnEarly ==
    /\ pc = "loop"
    /\ step >= 1
    /\ FinalSync
    /\ frame' = NoFrame
    /\ grads' = <<>>
    /\ step' = 0
    /\ pc' = IF caller = "train" THEN "check" ELSE "idle"
    /\ UNCHANGED <<gamma, q_network, sgd>>
    /\ UNCHANGED <<batch_vars, env_vars, tab_vars, caller, panic, hist_vars>>

TrainDqnReturn ==
    /\ pc = "loop"
    /\ step = INNER_STEPS
    /\ FinalSync
    /\ frame' = NoFrame
    /\ grads' = <<>>
    /\ step' = 0
    /\ pc' = IF caller = "train" THEN "check" ELSE "idle"
    /\ UNCHANGED <<gamma, q_network, sgd>>
    /\ UNCHANGED <<batch_vars, env_vars, tab_vars, caller, panic, hist_vars>>

(***************************************************************************)
(* Batches for direct train_dqn calls: the rows below, rotated.            *)
(***************************************************************************)
Row(s, a, n, r, d) == [state |-> s, action |-> a, next_state |-> n, reward |-> r, done |-> d]

ApiRows == <<
    Row(<<0, 0>>, <<0, 0>>, <<0, 0>>, 0, FALSE),
    Row(<<1, 2>>, <<0, 1>>, <<2, 1>>, 1, FALSE),
    Row(<<2, 1>>, <<-2, -1>>, <<1, 2>>, -1, TRUE),
    Row(<<0, 1>>, <<1, 1>>, <<1, 0>>, 2, TRUE),
    Row(<<1, 0>>, <<-1, 0>>, <<0, 2>>, 1, FALSE) >>

ApiRow(k, r) == ApiRows[((k + r) % Len(ApiRows)) + 1]

ApiBatch(k) ==
    [states |-> [r \in 1..BATCH |-> ApiRow(k, r).state],
     actions |-> [r \in 1..BATCH |-> ApiRow(k, r).action],
     next_states |-> [r \in 1..BATCH |-> ApiRow(k, r).next_state],
     rewards |-> [r \in 1..BATCH |-> ApiRow(k, r).reward],
     dones |-> [r \in 1..BATCH |-> ApiRow(k, r).done]]

\* The batch of zeros, and the batch train hands over after a stop at the
\* first transition: one done row, zeros after it.
ZeroRow == Row(Zeros(STATE_SIZE), Zeros(ACTION_SIZE), Zeros(STATE_SIZE), 0, FALSE)

BatchOfRows(first, others) ==
    [states |-> [r \in 1..BATCH |-> IF r = 1 THEN first.state ELSE others.state],
     actions |-> [r \in 1..BATCH |-> IF r = 1 THEN first.action ELSE others.action],
     next_states |-> [r \in 1..BATCH |-> IF r = 1 THEN first.next_state ELSE others.next_state],
     rewards |-> [r \in 1..BATCH |-> IF r = 1 THEN first.reward ELSE others.reward],
     dones |-> [r \in 1..BATCH |-> IF r = 1 THEN first.done ELSE others.done]]

ZeroBatch == BatchOfRows(ZeroRow, ZeroRow)

PaddedBatch == BatchOfRows(Row(<<1, 1>>, <<0, 1>>, <<2, 0>>, 1, TRUE), ZeroRow)

ApiBatches == {ApiBatch(k) : k \in 0..(Len(ApiRows) - 1)} \cup {ZeroBatch, PaddedBatch}

\* A direct call of the public train_dqn.
TrainDqn(b) ==
    /\ Idle
    /\ TrainDqnEntry(b)
    /\ pc' = "loop"
    /\ caller' = "api"
    /\ last_call' = [op |-> "train_dqn", arg |-> b]
    /\ ret' = <<>>
    /\ UNCHANGED <<batch_vars, env_vars, tab_vars, panic, n_train_dqn, n_updates, stops>>
    /\ learned' = TRUE

(***************************************************************************)
(* The trainer's interface: construction, then any sequence of calls.      *)
(***************************************************************************)
Unused ==
    /\ states = NoBatch /\ actions = NoBatch /\ next_states = NoBatch
    /\ rewards = NoBatch /\ dones = NoBatch /\ i = 0 /\ s_t_next = 0
    /\ agent = 0 /\ term = [kind |-> "none"]
    /\ q = <<>> /\ learn = <<>> /\ files = <<>>
    /\ n_train_dqn = 0 /\ n_updates = 0 /\ stops = NoStops /\ learned = FALSE

Init ==
    /\ \E g \in Gammas, lr \in LearningRates, q_net \in InitModels : New(g, lr, q_net)
    /\ grads = <<>> /\ step = 0 /\ frame = NoFrame
    /\ pc = "idle" /\ caller = "api" /\ panic = ""
    /\ last_call = NoCall /\ ret = <<>>
    /\ Unused

Next ==
    \/ \E s \in DomainStates : ExpectedValue(s)
    \/ \E s \in DomainStates : BestAction(s)
    \/ ExportLearnedValues
    \/ \E m \in Models : ImportModel(m)
    \/ ImportExported
    \/ \E b \in ApiBatches : TrainDqn(b)
    \/ InnerStep
    \/ InnerStepPanics
    \/ TrainDqnReturn

Spec == Init /\ [][Next]_vars

(***************************************************************************)
(* Termination and exploration strategies.                                 *)
(***************************************************************************)
\* FixedIterations::new
FixedIterations(iters) == [kind |-> "FixedIterations", i |-> 0, iters |-> iters]

\* SinkStates {}
SinkStates == [kind |-> "SinkStates", i |-> 0, iters |-> 0]

TerminationStrategies == {FixedIterations(n) : n \in 0..U32_MAX} \cup {SinkStates}

Overflow == "attempt to add with overflow"
RemainderByZero == "attempt to calculate the remainder with a divisor of zero"

StopOutcome(stop, t, msg) == [stop |-> stop, term |-> t, panic |-> msg]

\* FixedIterations::should_stop: `self.i += 1; self.i > self.iters`.  At
\* u32::MAX the addition panics (overflow checks on) or wraps (off).
FixedIterationsShouldStop(t) ==
    IF t.i = U32_MAX
    THEN {StopOutcome(FALSE, t, Overflow),
          StopOutcome(0 > t.iters, [t EXCEPT !.i = 0], "")}
    ELSE {StopOutcome(t.i + 1 > t.iters, [t EXCEPT !.i = t.i + 1], "")}

\* SinkStates::should_stop
SinkStatesNeverStops(t, s) == {StopOutcome(FALSE, t, "")}

SinkStatesShouldStop(t, s) == {StopOutcome(StateActions(s) = <<>>, t, "")}

\* TerminationStrategy::should_stop, by the strategy passed in.
ShouldStop(t, s) ==
    IF t.kind = "FixedIterations" THEN FixedIterationsShouldStop(t)
    ELSE SinkStatesShouldStop(t, s)

\* State::random_action: actions[random % actions.len()].  No outcome when the
\* state has no actions: the remainder panics.
RandomAction(s) == {StateActions(s)[k] : k \in 1..Len(StateActions(s))}

(***************************************************************************)
(* DQNAgentTrainer::train.                                                 *)
(***************************************************************************)
TrainCall ==
    /\ Idle
    /\ last_call.op = "new"
    /\ pc' = "batch"
    /\ caller' = "train"
    /\ last_call' = [op |-> "train", arg |-> <<>>]
    /\ UNCHANGED <<dqn_vars, batch_vars, env_vars, tab_vars, panic>>
    /\ UNCHANGED <<ret, n_train_dqn, n_updates, stops, learned>>

\* dqn.rs:222 allocates the rewards anew in every iteration of the outer loop.
InitRewardsOnce == IF rewards = NoBatch THEN Zeros(BATCH) ELSE rewards

InitRewards == Zeros(BATCH)

\* dqn.rs:206-225: the zeroed batch.
BatchInit ==
    /\ pc = "batch"
    /\ states' = [r \in 1..BATCH |-> Zeros(STATE_SIZE)]
    /\ actions' = [r \in 1..BATCH |-> Zeros(ACTION_SIZE)]
    /\ next_states' = [r \in 1..BATCH |-> Zeros(STATE_SIZE)]
    /\ rewards' = InitRewards
    /\ dones' = [r \in 1..BATCH |-> FALSE]
    /\ s_t_next' = agent
    /\ i' = 0
    /\ pc' = "collect"
    /\ UNCHANGED <<dqn_vars, env_vars, tab_vars, caller, panic, hist_vars>>

\* dqn.rs:228: the state recorded for a transition is the agent's state
\* before the action.
s_t_next_recorded == agent'

s_t_recorded == agent

\* dqn.rs:228-243: one transition.  pick_action moves the agent; the
\* strategy's answer ends the filling or lets it go on.
Collect ==
    /\ pc = "collect"
    /\ i < BATCH
    /\ \E action \in RandomAction(agent) :
        \E o \in ShouldStop(term, TakeAction(agent, action)) :
            /\ agent' = TakeAction(agent, action)
            /\ term' = o.term
            /\ IF o.panic # ""
               THEN /\ Panic(o.panic)
                    /\ DropTrainLocals
                    /\ stops' = stops
               ELSE /\ s_t_next' = agent'
                    /\ states' = [states EXCEPT ![i + 1] = StateVec(s_t_recorded)]
                    /\ actions' = [actions EXCEPT ![i + 1] = ActionVec(action)]
                    /\ next_states' = [next_states EXCEPT ![i + 1] = StateVec(s_t_next')]
                    /\ rewards' = [rewards EXCEPT ![i + 1] = Reward(s_t_next')]
                    /\ panic' = panic
                    /\ stops' = [stops EXCEPT !.collect = o.stop]
                    /\ IF o.stop
                       THEN /\ dones' = [dones EXCEPT ![i + 1] = TRUE]
                            /\ i' = i
                            /\ pc' = "call"
                       ELSE /\ dones' = dones
                            /\ i' = i + 1
                            /\ pc' = IF i + 1 = BATCH THEN "call" ELSE "collect"
    /\ UNCHANGED <<dqn_vars, tab_vars, caller>>
    /\ UNCHANGED <<last_call, ret, n_train_dqn, n_updates, learned>>

\* dqn.rs:229 in a state without actions: random_action panics.
PickActionPanics ==
    /\ pc = "collect"
    /\ i < BATCH
    /\ RandomAction(agent) = {}
    /\ Panic(RemainderByZero)
    /\ DropTrainLocals
    /\ UNCHANGED <<dqn_vars, env_vars, tab_vars, caller, hist_vars>>

\* dqn.rs:247: the boxed states and next states move into train_dqn, the
\* arrays are copied; the loop variable is gone.
CallTrainDqn ==
    /\ pc = "call"
    /\ n_train_dqn < MaxTrainDqnCalls
    /\ TrainDqnEntry([states |-> states, actions |-> actions,
                      next_states |-> next_states, rewards |-> rewards,
                      dones |-> dones])
    /\ pc' = "loop"
    /\ n_train_dqn' = n_train_dqn + 1
    /\ states' = NoBatch /\ next_states' = NoBatch /\ i' = 0
    /\ UNCHANGED <<actions, rewards, dones, s_t_next>>
    /\ UNCHANGED <<env_vars, tab_vars, caller, panic>>
    /\ UNCHANGED <<last_call, ret, n_updates, stops>>
    /\ learned' = TRUE

\* dqn.rs:250-252: the second question to the strategy, on the same state.
CheckStop ==
    /\ pc = "check"
    /\ \E o \in ShouldStop(term, s_t_next) :
        /\ term' = o.term
        /\ IF o.panic # ""
           THEN /\ Panic(o.panic)
                /\ DropTrainLocals
                /\ stops' = stops
           ELSE /\ panic' = panic
                /\ stops' = [stops EXCEPT !.check = o.stop]
                /\ pc' = IF o.stop THEN "returned" ELSE "batch"
                /\ UNCHANGED batch_vars
    /\ UNCHANGED <<dqn_vars, agent, tab_vars, caller>>
    /\ UNCHANGED <<last_call, ret, n_train_dqn, n_updates, learned>>

StartStates == DomainStates \ {SinkPos}

InitTrain ==
    /\ \E g \in Gammas, lr \in LearningRates, q_net \in InitModels : New(g, lr, q_net)
    /\ grads = <<>> /\ step = 0 /\ frame = NoFrame
    /\ pc = "idle" /\ caller = "api" /\ panic = ""
    /\ last_call = NoCall /\ ret = <<>>
    /\ states = NoBatch /\ actions = NoBatch /\ next_states = NoBatch
    /\ rewards = NoBatch /\ dones = NoBatch /\ i = 0 /\ s_t_next = 0
    /\ agent \in StartStates
    /\ term \in TerminationStrategies
    /\ q = <<>> /\ learn = <<>> /\ files = <<>>
    /\ n_train_dqn = 0 /\ n_updates = 0 /\ stops = NoStops /\ learned = FALSE

NextTrain ==
    \/ TrainCall
    \/ BatchInit
    \/ Collect
    \/ PickActionPanics
    \/ CallTrainDqn
    \/ InnerStep
    \/ InnerStepPanics
    \/ TrainDqnReturn
    \/ CheckStop

SpecTrain == InitTrain /\ [][NextTrain]_vars

(***************************************************************************)
(* AgentTrainer (the value table) and QLearning.                           *)
(***************************************************************************)
\* HashMap::get
Get(m, k) == IF k \in DOMAIN m THEN Some(m[k]) ELSE None

\* HashMap::insert
Insert(m, k, v) == [x \in (DOMAIN m) \cup {k} |-> IF x = k THEN v ELSE m[x]]

EmptyMap == <<>>

\* values().max_by(partial_cmp): None for an empty map.
MaxValue(m) ==
    IF DOMAIN m = {} THEN None
    ELSE Some(CHOOSE v \in {m[k] : k \in DOMAIN m} : \A k \in DOMAIN m : m[k] <= v)

\* QLearning::new
QLearning(alpha, g, initial_value) ==
    [alpha |-> alpha, gamma |-> g, initial_value |-> initial_value]

Learnings == {QLearning(1, 1, 2), QLearning(2, 0, 0)}

\* QLearning::value.  A pair without a value gets the initial value, whatever
\* the reward was.
QLearningValueFromInitial(l, new_action_values, old_value, reward_after_action) ==
    LET best == IF new_action_values.some THEN MaxValue(new_action_values.val) ELSE None
        max_next == IF best.some THEN best.val ELSE l.initial_value
        x == IF old_value.some THEN old_value.val ELSE l.initial_value
    IN  FAdd(x, FMul(l.alpha,
                     FSub(FAdd(reward_after_action, FMul(l.gamma, max_next)), x)))

QLearningValue(l, new_action_values, old_value, reward_after_action) ==
    LET best == IF new_action_values.some THEN MaxValue(new_action_values.val) ELSE None
        max_next == IF best.some THEN best.val ELSE l.initial_value
    IN  IF old_value.some
        THEN FAdd(old_value.val,
                  FMul(l.alpha,
                       FSub(FAdd(reward_after_action, FMul(l.gamma, max_next)),
                            old_value.val)))
        ELSE l.initial_value

\* lib.rs:218: self.q.get(&s_t).and_then(|m| m.get(&action))
OldValue(s_t, action) ==
    IF Get(q, s_t).some THEN Get(Get(q, s_t).val, action) ELSE None

\* lib.rs:222-225: self.q.entry(s_t).or_insert_with(HashMap::new).insert(action, v)
InsertValue(s_t, action, v) ==
    Insert(q, s_t, Insert(IF Get(q, s_t).some THEN q[s_t] ELSE EmptyMap, action, v))

TabTrainCall ==
    /\ Idle
    /\ last_call.op = "new"
    /\ pc' = "tab"
    /\ caller' = "tab"
    /\ last_call' = [op |-> "train", arg |-> <<>>]
    /\ UNCHANGED <<dqn_vars, batch_vars, env_vars, tab_vars, panic>>
    /\ UNCHANGED <<ret, n_train_dqn, n_updates, stops, learned>>

\* lib.rs:210-229: one iteration of AgentTrainer::train.
TabStep ==
    /\ pc = "tab"
    /\ n_updates < MaxUpdates
    /\ \E action \in RandomAction(agent) :
        \E o \in ShouldStop(term, TakeAction(agent, action)) :
            /\ agent' = TakeAction(agent, action)
            /\ q' = InsertValue(agent, action,
                       QLearningValue(learn, Get(q, agent'), OldValue(agent, action),
                                      Reward(agent')))
            /\ n_updates' = n_updates + 1
            /\ term' = o.term
            /\ IF o.panic # ""
               THEN /\ Panic(o.panic)
                    /\ stops' = stops
               ELSE /\ panic' = panic
                    /\ stops' = [stops EXCEPT !.check = o.stop]
                    /\ pc' = IF o.stop THEN "returned" ELSE "tab"
    /\ UNCHANGED <<dqn_vars, batch_vars, learn, files, caller>>
    /\ UNCHANGED <<last_call, ret, n_train_dqn, learned>>

\* lib.rs:211 in a state without actions: random_action panics.
TabPickActionPanics ==
    /\ pc = "tab"
    /\ RandomAction(agent) = {}
    /\ Panic(RemainderByZero)
    /\ UNCHANGED <<dqn_vars, batch_vars, env_vars, tab_vars, caller, hist_vars>>

(***************************************************************************)
(* The table's JSON file: export_learned_values_to_json and                *)
(* import_state_from_json.                                                  *)
(***************************************************************************)
\* lib.rs:161, the path import_state_from_json reads.
GridJson == "data/grid.json"

Paths == {"grid.json", GridJson}

\* What a path holds: no file, the empty file, or a JSON document, which is
\* a sequence of (state, sequence of (action, value)).
Absent == [kind |-> "absent"]
EmptyFile == [kind |-> "empty"]
Json(doc) == [kind |-> "json", doc |-> doc]

\* The orders in which an iteration may visit the elements of a set.
Orders(S) ==
    {f \in [1..Cardinality(S) -> S] :
        \A a, b \in 1..Cardinality(S) : a # b => f[a] # f[b]}

\* lib.rs:256-260: the (action, value) pairs of one state, in the order of
\* the map's iteration.
SerializeInner(m) ==
    {[k \in 1..Len(ord) |-> <<ord[k], m[ord[k]]>>] : ord \in Orders(DOMAIN m)}

\* lib.rs:245-273 and serde_json::to_string: the documents the table may be
\* written as, one for every order of iteration.
Serialize(table) ==
    {[k \in 1..Len(ord) |-> <<ord[k], inner[ord[k]]>>] :
        ord \in Orders(DOMAIN table),
        inner \in {f \in [DOMAIN table -> UNION {SerializeInner(table[x]) : x \in DOMAIN table}] :
                      \A x \in DOMAIN table : f[x] \in SerializeInner(table[x])}}

\* lib.rs:177-181 and 175-184: one insert for every pair of the sequence.
RECURSIVE InsertAll(_, _)
InsertAll(m, pairs) ==
    IF Len(pairs) = 0 THEN m
    ELSE InsertAll(Insert(m, Head(pairs)[1], Head(pairs)[2]), Tail(pairs))

\* lib.rs:164-185: the table read from a file's contents.
Deserialize(file) ==
    IF file.kind = "empty" THEN EmptyMap
    ELSE InsertAll(EmptyMap,
                   [k \in 1..Len(file.doc) |->
                       <<file.doc[k][1], InsertAll(EmptyMap, file.doc[k][2])>>])

\* A table of an earlier run, and a table learned in this one.
OldTable == Insert(EmptyMap, 0, Insert(EmptyMap, "right", 5))

NewTable ==
    Insert(Insert(EmptyMap, 0, Insert(Insert(EmptyMap, "left", 2), "right", 1)),
           1, Insert(EmptyMap, "right", 3))

Tables == {EmptyMap, OldTable, NewTable}

InitFiles ==
    {[p \in Paths |-> IF p = GridJson THEN f ELSE Absent] :
        f \in {Absent, EmptyFile} \cup {Json(d) : d \in Serialize(OldTable)}}

\* No train call is running on the AgentTrainer.
TabIdle == pc \in {"idle", "returned"}

\* AgentTrainer::import_state
ImportState(table) ==
    /\ TabIdle
    /\ q' = table
    /\ last_call' = [op |-> "import_state", arg |-> table]
    /\ UNCHANGED <<dqn_vars, batch_vars, env_vars, learn, files, ctl_vars>>
    /\ UNCHANGED <<ret, n_train_dqn, n_updates, stops, learned>>

\* AgentTrainer::export_learned_values_to_json
ExportLearnedValuesToJson(filepath) ==
    /\ TabIdle
    /\ \E doc \in Serialize(q) : files' = [files EXCEPT ![filepath] = Json(doc)]
    /\ last_call' = [op |-> "export_learned_values_to_json", arg |-> filepath]
    /\ UNCHANGED <<dqn_vars, batch_vars, env_vars, q, learn, ctl_vars>>
    /\ UNCHANGED <<ret, n_train_dqn, n_updates, stops, learned>>

\* lib.rs:161: the path that is read.
ReadPath(filepath) == GridJson

\* AgentTrainer::import_state_from_json
ImportStateFromJson(filepath) ==
    /\ TabIdle
    /\ last_call' = [op |-> "import_state_from_json", arg |-> filepath]
    /\ IF files[ReadPath(filepath)].kind = "absent"
       THEN /\ Panic("Failed to read file contents!")
            /\ UNCHANGED q
       ELSE /\ q' = Deserialize(files[ReadPath(filepath)])
            /\ UNCHANGED <<pc, panic>>
    /\ UNCHANGED <<dqn_vars, batch_vars, env_vars, learn, files, caller>>
    /\ UNCHANGED <<ret, n_train_dqn, n_updates, stops, learned>>

\* AgentTrainer::new in a working directory, then any sequence of imports and
\* exports.
InitJson ==
    /\ q = EmptyMap
    /\ files \in InitFiles
    /\ learn = <<>> /\ agent = 0 /\ term = [kind |-> "none"]
    /\ gamma = 0 /\ q_network = <<>> /\ target_q_net = <<>> /\ sgd = <<>>
    /\ grads = <<>> /\ step = 0 /\ frame = NoFrame
    /\ states = NoBatch /\ actions = NoBatch /\ next_states = NoBatch
    /\ rewards = NoBatch /\ dones = NoBatch /\ i = 0 /\ s_t_next = 0
    /\ pc = "idle" /\ caller = "tab" /\ panic = ""
    /\ last_call = NoCall /\ ret = <<>>
    /\ n_train_dqn = 0 /\ n_updates = 0 /\ stops = NoStops /\ learned = FALSE

NextJson ==
    \/ \E t \in Tables : ImportState(t)
    \/ \E p \in Paths : ExportLearnedValuesToJson(p)
    \/ \E p \in Paths : ImportStateFromJson(p)

SpecJson == InitJson /\ [][NextJson]_vars

\* AgentTrainer::new, an agent, a learning and a termination strategy.
InitTab ==
    /\ q = EmptyMap
    /\ files = <<>>
    /\ learn \in Learnings
    /\ agent \in StartStates
    /\ term \in TerminationStrategies
    /\ gamma = 0 /\ q_network = <<>> /\ target_q_net = <<>> /\ sgd = <<>>
    /\ grads = <<>> /\ step = 0 /\ frame = NoFrame
    /\ states = NoBatch /\ actions = NoBatch /\ next_states = NoBatch
    /\ rewards = NoBatch /\ dones = NoBatch /\ i = 0 /\ s_t_next = 0
    /\ pc = "idle" /\ caller = "api" /\ panic = ""
    /\ last_call = NoCall /\ ret = <<>>
    /\ n_train_dqn = 0 /\ n_updates = 0 /\ stops = NoStops /\ learned = FALSE

NextTab ==
    \/ TabTrainCall
    \/ TabStep
    \/ TabPickActionPanics

SpecTab == InitTab /\ [][NextTab]_vars

(***************************************************************************)
(* Properties of the trainer's interface (Spec).                           *)
(***************************************************************************)
InTrainDqn == pc = "loop"

\* No train_dqn call is running and none was cut off by a panic.
Quiescent == ~InTrainDqn /\ pc # "panicked"

\* C1: whenever no train_dqn call is in progress (after new, after every
\* import_model, after every train_dqn return) the target network equals the
\* online network, so expected_value answers from the latest online weights.
C1_TargetEqualsOnlineWhenIdle ==
    Quiescent =>
        /\ target_q_net = q_network
        /\ \A s \in DomainStates : expected_value(s) = QueryNetwork(q_network, s)

\* A train_dqn call has returned and left weights that build_module did not make.
C1_Witness ==
    /\ pc = "idle"
    /\ last_call.op = "train_dqn"
    /\ q_network \notin InitModels

\* C2: during a train_dqn call the target network stays what the online
\* network was at the start of the call, through every inner step; the
\* optimizer changes the online network only.
C2_TargetFixedDuringInnerLoop ==
    InTrainDqn => target_q_net = frame.q_at_entry

\* All inner steps have run, the online network has moved, the target has not.
C2_Witness ==
    /\ pc = "loop"
    /\ step = INNER_STEPS
    /\ q_network # frame.q_at_entry
    /\ target_q_net = frame.q_at_entry

\* The index of the maximum element, the lowest index on ties.
IsFirstMax(a, k) ==
    /\ \A j \in 0..(Len(a) - 1) : a[j + 1] <= a[k + 1]
    /\ \A j \in 0..(k - 1) : a[j + 1] < a[k + 1]

\* C7: train_dqn decodes every action vector to the index of its maximum
\* element, the first one on ties, also for vectors that are all zero or all
\* negative.
C7_DecodesFirstMaximum ==
    (InTrainDqn /\ caller = "api") =>
        \A r \in 1..BATCH : IsFirstMax(last_call.arg.actions[r], frame.actions[r])

\* C8: the regression target of a row is its reward when done is true, and
\* reward + gamma * (maximum target-network value of its next state) when
\* done is false.
C8_BellmanTarget ==
    (pc = "loop" /\ step > 0) =>
        \A r \in 1..BATCH :
            LET max_next == MaxReduce(Forward(target_q_net, frame.next_states[r]))
            IN  IF frame.dones[r] = 1
                THEN frame.target_q[r] = frame.rewards[r]
                ELSE frame.target_q[r] = FAdd(frame.rewards[r], FMul(gamma, max_next))

\* C8, with the value of the product spelled out: the target comes from the
\* target network; a row that is not done gets reward + gamma * maxNextQ; a
\* done row gets exactly its reward when maxNextQ is finite and NaN when
\* maxNextQ is infinite or NaN, since 0 times a non-finite value is NaN.
C8_BellmanTargetFinite ==
    (pc = "loop" /\ step > 0) =>
        \A r \in 1..BATCH :
            LET max_next == MaxReduce(Forward(target_q_net, frame.next_states[r]))
            IN  IF frame.dones[r] = 1
                THEN IF IsFinite(max_next)
                     THEN frame.target_q[r] = frame.rewards[r]
                     ELSE IsNaN(frame.target_q[r])
                ELSE frame.target_q[r] = FAdd(frame.rewards[r], FMul(gamma, max_next))

\* A later inner step, the online network already moved away from the target
\* network, on a batch with a done row and a row whose future term counts.
C8_Witness ==
    /\ pc = "loop"
    /\ step >= 2
    /\ q_network # target_q_net
    /\ \E r \in 1..BATCH : frame.dones[r] = 1 /\ frame.target_q[r] = frame.rewards[r]
    /\ \E r \in 1..BATCH : frame.dones[r] = 0 /\ frame.target_q[r] # frame.rewards[r]

\* C9: import_model(export_learned_values()) leaves the online network, the
\* target network and every expected_value unchanged.
C9_RoundTripChangesNothing ==
    [][last_call'.op = "import_exported" =>
          /\ q_network' = q_network
          /\ target_q_net' = target_q_net
          /\ \A s \in DomainStates : QueryNetwork(target_q_net', s) = expected_value(s)]_vars

\* The round trip was made on a trainer whose optimizer has run.
C9_Witness ==
    /\ last_call.op = "import_exported"
    /\ sgd.velocity # 0
    /\ q_network \notin InitModels

\* C10: right after import_model(m) the online and the target network both
\* equal m, whatever was trained or imported before; export_learned_values
\* returns m and both networks give the same outputs.
C10_ImportReplacesBoth ==
    (pc = "idle" /\ last_call.op = "import_model") =>
        /\ q_network = last_call.arg
        /\ target_q_net = last_call.arg
        /\ export_learned_values = last_call.arg
        /\ \A s \in DomainStates :
              Forward(q_network, Normalize(StateVec(s)))
                  = Forward(target_q_net, Normalize(StateVec(s)))

\* A model was imported into a trainer whose optimizer has run.
C10_Witness ==
    /\ pc = "idle"
    /\ last_call.op = "import_model"
    /\ last_call.arg = NetA
    /\ sgd.velocity # 0


(***************************************************************************)
(* Properties of DQNAgentTrainer::train (SpecTrain).                       *)
(***************************************************************************)
\* C3: train returns exactly on a stop answer in the check after a training
\* step, and with FixedIterations(N) it returns for every N: the counting
\* strategy never ends the run by an overflow of its counter.
C3_FixedIterationsAlwaysReturns ==
    /\ (pc = "returned" /\ caller = "train") => stops.check
    /\ (caller = "train" /\ term.kind = "FixedIterations") => panic # Overflow

\* C4: the batch handed to train_dqn has all BATCH rows; after a stop answer
\* for transition i, row i is done, no earlier row is done and every later
\* row is still zero and not done.
C4_EarlyStopBatch ==
    pc = "call" =>
        /\ Len(states) = BATCH /\ Len(actions) = BATCH /\ Len(next_states) = BATCH
        /\ Len(rewards) = BATCH /\ Len(dones) = BATCH
        /\ stops.collect =>
            /\ dones[i + 1]
            /\ \A j \in 1..i : ~dones[j]
            /\ \A j \in (i + 2)..BATCH :
                /\ states[j] = Zeros(STATE_SIZE)
                /\ actions[j] = Zeros(ACTION_SIZE)
                /\ next_states[j] = Zeros(STATE_SIZE)
                /\ rewards[j] = 0
                /\ ~dones[j]

\* The filling stopped early in a batch that follows a full batch whose
\* rewards were not all zero.
C4_Witness ==
    /\ pc = "call"
    /\ stops.collect
    /\ i + 1 < BATCH
    /\ n_train_dqn >= 1
    /\ rewards[i + 1] # 0

\* C5: FixedIterations(N) makes the outer loop of train run N times, so train
\* has made N train_dqn calls when it returns.
C5_FixedIterationsCountsTrainDqnCalls ==
    (pc = "returned" /\ caller = "train" /\ term.kind = "FixedIterations") =>
        n_train_dqn = term.iters

(***************************************************************************)
(* Properties of AgentTrainer::train (SpecTab).                            *)
(***************************************************************************)
\* C6: AgentTrainer::train with a fresh FixedIterations(N) has made exactly
\* N value updates when it returns, for every N >= 0.
C6_FixedIterationsCountsUpdates ==
    (pc = "returned" /\ caller = "tab" /\ term.kind = "FixedIterations") =>
        n_updates = term.iters

(***************************************************************************)
(* Properties of the queries and of the failure paths (Spec).              *)
(***************************************************************************)
\* C11: expected_value is a query without side effects: it changes neither
\* network, nor the optimizer, nor gamma; what it returns is determined by
\* the target network and the state, so two calls on the same state with no
\* mutating operation in between return the same vector.
C11_ExpectedValueIsPureQuery ==
    /\ [](last_call.op = "expected_value" =>
              ret = QueryNetwork(target_q_net, last_call.arg))
    /\ [][last_call'.op = "expected_value" =>
              /\ gamma' = gamma
              /\ q_network' = q_network
              /\ target_q_net' = target_q_net
              /\ sgd' = sgd
              /\ (last_call.op = "expected_value" /\ last_call'.arg = last_call.arg)
                     => ret' = ret]_vars

\* A query after training, with an answer that differs between states.
C11_Witness ==
    /\ last_call.op = "expected_value"
    /\ last_call.arg = 1
    /\ sgd.velocity # 0
    /\ ret # QueryNetwork(target_q_net, 0)

\* What the target network computes for a state, before any guard.
RawQuery(s) == Forward(target_q_net, Normalize(StateVec(s)))

\* C12: expected_value never returns a NaN or an infinite element; train_dqn
\* has no such guard.
C12_QueryReturnsFiniteValues ==
    last_call.op = "expected_value" =>
        \A k \in 1..ACTION_SIZE : IsFinite(ret[k])

\* C12, as nans_to(0) guards: expected_value never returns NaN, each NaN of
\* the target network's output is returned as 0 and every other element,
\* an infinite one included, as it is; train_dqn has no guard, its return
\* hands the online parameters to the target network whatever they hold.
C12_QueryReplacesNaNOnly ==
    /\ [](last_call.op = "expected_value" =>
              \A k \in 1..ACTION_SIZE :
                  /\ ~IsNaN(ret[k])
                  /\ ret[k] = IF IsNaN(RawQuery(last_call.arg)[k]) THEN 0
                              ELSE RawQuery(last_call.arg)[k])
    /\ [][(pc = "loop" /\ pc' = "idle") => target_q_net' = q_network]_vars

\* A query after training, on a target network whose output holds a NaN and
\* an infinite element.
C12_Witness ==
    /\ last_call.op = "expected_value"
    /\ sgd.velocity # 0
    /\ \E k \in 1..ACTION_SIZE : IsNaN(RawQuery(last_call.arg)[k]) /\ ret[k] = 0
    /\ \E k \in 1..ACTION_SIZE : IsInf(RawQuery(last_call.arg)[k]) /\ IsInf(ret[k])

\* C13: when the optimizer reports a parameter without gradient, train_dqn
\* panics in that step: the target network is not resynced, and nothing runs
\* after the panic (no retry, no further inner step).
C13_UnusedParamsAborts ==
    [][/\ pc # "panicked"
       /\ (pc = "loop" /\ pc' = "panicked") =>
              /\ panic' = "Unused params"
              /\ target_q_net' = target_q_net]_vars

\* The call was aborted after the online network had moved: the target
\* network is left behind.
C13_Witness ==
    /\ pc = "panicked"
    /\ panic = "Unused params"
    /\ last_call.op = "train_dqn"
    /\ q_network # target_q_net

\* C14: a train_dqn call applies exactly INNER_STEPS = 20 optimizer updates
\* to the online network, whatever the batch: the call starts at step 0,
\* every pass of the loop is one update and one step, the call returns at
\* step 20 only and its return changes the online network no more.
C14_TwentyUpdatesPerCall ==
    [][/\ (pc # "loop" /\ pc' = "loop") => step' = 0
       /\ (pc = "loop" /\ pc' = "loop") => (step < INNER_STEPS /\ step' = step + 1)
       /\ (pc = "loop" /\ pc' = "idle") =>
              (step = INNER_STEPS /\ INNER_STEPS = 20 /\ q_network' = q_network)]_vars

\* The twentieth update of a call on the batch of zeros has been applied.
C14_Witness ==
    /\ pc = "loop"
    /\ step = 20
    /\ last_call.arg = ZeroBatch
    /\ q_network # frame.q_at_entry

\* The gradient of the loss of the coming step alone, by row.
StepGradient == [r \in 1..BATCH |-> HuberGrad(FSub(ActionQs[r], TargetQ[r]))]

\* C15: every inner step computes its gradient independently: the buffer is
\* zero when the gradient of a step is computed, so at the update it holds
\* the gradient of that step's loss only, with nothing left from earlier
\* steps or earlier train_dqn calls.
C15_GradientOfThisStepOnly ==
    (pc = "loop" /\ step < INNER_STEPS) =>
        /\ grads = Zeros(BATCH)
        /\ Backward = StepGradient

\* A later step of a call, after the optimizer has run before, with a
\* gradient that is not zero.
C15_Witness ==
    /\ pc = "loop"
    /\ step >= 2
    /\ step < INNER_STEPS
    /\ sgd.velocity # 0
    /\ \E r \in 1..BATCH : StepGradient[r] # 0

C17_BestActionNoneBeforeLearning ==
    last_call.op = "best_action" =>
        ret = IF learned THEN Some(ActionFrom(expected_value(last_call.arg)))
              ELSE None

(***************************************************************************)
(* Properties of AgentTrainer's JSON file (SpecJson) and of its updates    *)
(* (SpecTab).                                                              *)
(***************************************************************************)
\* C18: export_learned_values_to_json(p) followed by import_state_from_json(p)
\* leaves the trainer with exactly the exported table, for every path p.
C18_JsonRoundTrip ==
    [][(/\ last_call.op = "export_learned_values_to_json"
        /\ last_call'.op = "import_state_from_json"
        /\ last_call'.arg = last_call.arg) =>
           (pc' # "panicked" /\ q' = q)]_vars

\* The value C19 gives for the pair (s, a) after a move to s_next.
C19_Value(s, a, s_next) ==
    LET max_next == IF s_next \in DOMAIN q
                    THEN CHOOSE v \in {q[s_next][b] : b \in DOMAIN q[s_next]} :
                             \A b \in DOMAIN q[s_next] : q[s_next][b] <= v
                    ELSE learn.initial_value
    IN  IF s \in DOMAIN q /\ a \in DOMAIN q[s]
        THEN q[s][a] + learn.alpha
                 * (Reward(s_next) + learn.gamma * max_next - q[s][a])
        ELSE learn.initial_value

\* C19: an iteration of AgentTrainer::train with QLearning writes the one
\* entry q[s_t][a] and leaves every other entry as it was; the value is
\* initial_value for a pair without a value, and otherwise
\* old + alpha * (reward + gamma * max_next - old), max_next being the
\* largest value of the next state or initial_value when it has none.
C19_OneEntryPerIteration ==
    [][n_updates' = n_updates + 1 =>
          \E a \in RandomAction(agent) :
              /\ agent' = TakeAction(agent, a)
              /\ DOMAIN q' = DOMAIN q \cup {agent}
              /\ \A s \in DOMAIN q : s # agent => q'[s] = q[s]
              /\ DOMAIN q'[agent] = (IF agent \in DOMAIN q THEN DOMAIN q[agent] ELSE {}) \cup {a}
              /\ \A b \in DOMAIN q'[agent] : b # a => q'[agent][b] = q[agent][b]
              /\ q'[agent][a] = C19_Value(agent, a, agent')]_vars

\* A pair was written a second time, to a value other than the initial one,
\* in a table that holds further entries.
C19_Witness ==
    /\ caller = "tab"
    /\ n_updates >= 3
    /\ Cardinality(DOMAIN q) >= 2
    /\ \E s \in DOMAIN q : \E a \in DOMAIN q[s] : q[s][a] # learn.initial_value

(***************************************************************************)
(* The stop that cuts a batch short (SpecTrain).                           *)
(***************************************************************************)
\* C20: with FixedIterations or SinkStates a batch that was cut short by a
\* stop is the last batch of the train call: the check after train_dqn
\* answers true as well, so after a stop in the collection no new batch is
\* started and the check does not fail.
C20_DoneBatchIsLast ==
    stops.collect =>
        /\ pc \notin {"batch", "collect"}
        /\ ~(pc = "panicked" /\ panic = Overflow)

(***************************************************************************)
(* Both trainers' train loops, side by side: a run constructs one of the   *)
(* two trainers and calls its train.                                       *)
(***************************************************************************)
\* A DQNAgentTrainer was constructed (and no AgentTrainer).
HasDqnTrainer == DOMAIN q_network # {}

InitTrainers == InitTrain \/ InitTab

NextTrainers ==
    \/ HasDqnTrainer /\ TrainCall
    \/ BatchInit
    \/ Collect
    \/ PickActionPanics
    \/ CallTrainDqn
    \/ InnerStep
    \/ InnerStepPanics
    \/ TrainDqnReturn
    \/ CheckStop
    \/ ~HasDqnTrainer /\ TabTrainCall
    \/ TabStep
    \/ TabPickActionPanics

SpecTrainers == InitTrainers /\ [][NextTrainers]_vars

\* The train loop is about to ask the exploration strategy for an action.
AboutToPickAction == pc \in {"collect", "tab"}

\* C21: with SinkStates and an agent that starts in a state with an action,
\* neither train loop asks for an action in a state without actions, so
\* random_action never takes a remainder by zero; training stops in the
\* first sink state reached: once the agent is there no action is asked for
\* and no batch is started, and train returns nowhere else.
C21_SinkStatesNeverPicksInSink ==
    term.kind = "SinkStates" =>
        /\ panic # RemainderByZero
        /\ AboutToPickAction => RandomAction(agent) # {}
        /\ StateActions(agent) = <<>> => pc \notin {"collect", "tab", "batch"}
        /\ pc = "returned" => StateActions(agent) = <<>>

\* DQNAgentTrainer::train has returned in the sink state, reached in a later
\* batch.
C21_Witness ==
    /\ term.kind = "SinkStates"
    /\ caller = "train"
    /\ pc = "returned"
    /\ StateActions(agent) = <<>>
    /\ n_train_dqn >= 2

(***************************************************************************)
(* The trajectory in the batches (SpecTrain).                              *)
(***************************************************************************)
\* The number of rows of the batch that hold a transition.
Filled == IF pc = "call" /\ stops.collect THEN i + 1 ELSE i

\* The state a state vector was made of.
StateOfVec(v) == CHOOSE s \in DomainStates : StateVec(s) = v

\* C22: the transitions train collects are one unbroken trajectory: within
\* a batch states[i+1] = next_states[i]; the first state of a following
\* batch is the last filled next state of the batch before (which train
\* keeps in s_t_next over the train_dqn call); rewards[i] is the reward of
\* the state of next_states[i].
C22_UnbrokenTrajectory ==
    /\ [](pc \in {"collect", "call"} =>
              /\ \A k \in 1..Filled :
                     /\ rewards[k] = Reward(StateOfVec(next_states[k]))
                     /\ k < Filled => states[k + 1] = next_states[k]
              /\ Filled >= 1 => next_states[Filled] = StateVec(s_t_next))
    /\ [][/\ (pc = "batch" /\ pc' = "collect" /\ n_train_dqn >= 1) =>
                 s_t_next' = s_t_next
          /\ (pc = "collect" /\ i = 0 /\ pc' \in {"collect", "call"}) =>
                 states'[1] = StateVec(s_t_next)]_vars

\* A batch after the first one, with several transitions in which the agent
\* moved.
C22_Witness ==
    /\ pc = "call"
    /\ n_train_dqn >= 1
    /\ Filled >= 2
    /\ states[1] # states[2]
    /\ next_states[1] # next_states[2]

=============================================================================
